---- MODULE Spec2Model ----
(***************************************************************************)
(* Model of the REST API of the MERN todo application: the auth routes     *)
(* (register, login, /me, logout), the task routes (create, list, update,  *)
(* delete), the Access Guard they are mounted behind, and the two stores   *)
(* (users, tasks).                                                          *)
(*                                                                         *)
(* Strings are sequences of one-character strings.  A JavaScript value of  *)
(* a request body is a record [t, b, s, n] tagged with its type.           *)
(***************************************************************************)
EXTENDS Integers, Sequences, FiniteSets, TLC

\* ------------------------------------------------------------------ bounds
MaxTasks == 2          \* task ids ever allocated
MaxTime == 2           \* clock ticks
MaxReg == 2            \* register requests in flight at once
MaxInflight == 2       \* update and delete requests in flight at once
MaxSame == 2           \* requests of one user action counted in flight

\* ------------------------------------------------------- program constants
MaxTitleLen == 200     \* title.trim().length > 200
MinPasswordLen == 6    \* password.length < 6
MinNameLen == 2        \* User schema: name 2..50 characters
MaxNameLen == 50
DefaultLimit == 100    \* limit = 100
DefaultPage == 1       \* page = 1
JwtExpire == 2         \* expiresIn '7d', in clock ticks

\* ------------------------------------------------------------------ strings
Str0 == << >>

Rep(c, n) == [i \in 1..n |-> c]

Lower(c) ==
  CASE c = "A" -> "a"
    [] c = "B" -> "b"
    [] OTHER -> c

\* String.prototype.toLowerCase
toLowerCase(s) == [i \in 1..Len(s) |-> Lower(s[i])]

IsSpace(c) == c = " "

RECURSIVE trimStart(_)
trimStart(s) ==
  IF s = << >> THEN s
  ELSE IF IsSpace(Head(s)) THEN trimStart(Tail(s)) ELSE s

RECURSIVE trimEnd(_)
trimEnd(s) ==
  IF s = << >> THEN s
  ELSE IF IsSpace(s[Len(s)]) THEN trimEnd(SubSeq(s, 1, Len(s) - 1)) ELSE s

\* String.prototype.trim
trim(s) == trimEnd(trimStart(s))

\* --------------------------------------------------------- JavaScript values
JUndef == [t |-> "undef", b |-> FALSE, s |-> Str0, n |-> 0]
JBool(x) == [t |-> "bool", b |-> x, s |-> Str0, n |-> 0]
JStr(x) == [t |-> "str", b |-> FALSE, s |-> x, n |-> 0]
JNum(x) == [t |-> "num", b |-> FALSE, s |-> Str0, n |-> x]

\* ToBoolean: Boolean(v), !v
Truthy(v) ==
  CASE v.t = "undef" -> FALSE
    [] v.t = "bool" -> v.b
    [] v.t = "str" -> Len(v.s) > 0
    [] OTHER -> v.n # 0

\* ------------------------------------------------------------ request inputs
EmailA == <<"a", "@", "x">>
EmailAUpper == <<" ", "A", "@", "x">>
EmailB == <<"b", "@", "x">>
EmailNoAt == <<"a", "x">>
Emails == {Str0, EmailA, EmailAUpper, EmailB, EmailNoAt}

NameAnn == <<" ", "A", "n">>
NameShort == <<"Z">>

PwOne == Rep("p", MinPasswordLen)
PwTwo == Rep("q", MinPasswordLen)
PwShort == Rep("p", MinPasswordLen - 1)

\* bodies of POST /register: every field alone missing or invalid, and the
\* valid combinations
RegisterBodies ==
  {[name |-> NameAnn, email |-> e, password |-> PwOne] :
     e \in {EmailA, EmailAUpper, EmailB, EmailNoAt, Str0}}
  \cup {[name |-> n, email |-> EmailB, password |-> PwOne] :
          n \in {Str0, NameShort}}
  \cup {[name |-> NameAnn, email |-> EmailA, password |-> p] :
          p \in {Str0, PwShort}}

LoginBodies == [email : Emails \ {EmailNoAt}, password : {Str0, PwOne, PwTwo}]

TitleMilk == <<" ", "m", " ">>
TitleTea == <<"t">>
TitleBlank == <<" ">>
TitleLong == Rep("x", MaxTitleLen + 1)

CompletedNo == JStr(<<"n", "o">>)

TaskIds == 1..MaxTasks
BadId == 0             \* a :id that is not an ObjectId
IdParams == TaskIds \cup {BadId}

UserIds == 1..2

\* req.body of a task request; user is 0 when the field is absent
Body(title, completed, user) ==
  [title |-> title, completed |-> completed, user |-> user]

NoBody == Body(JUndef, JUndef, 0)

Bodies ==
  {NoBody}
  \cup {Body(t, JUndef, 0) :
          t \in {JStr(Str0), JStr(TitleBlank), JStr(TitleMilk),
                 JStr(TitleLong), JNum(5)}}
  \cup {Body(JUndef, c, 0) : c \in {JBool(TRUE), JBool(FALSE), CompletedNo}}
  \cup {Body(JStr(TitleTea), JBool(TRUE), u) : u \in UserIds}

\* req.query of GET /tasks; completed is Str0 when the parameter is absent
Query(completed, limit, page) ==
  [completed |-> completed, limit |-> limit, page |-> page]

NoQuery == Query(Str0, DefaultLimit, DefaultPage)

StrTrue == <<"t", "r", "u", "e">>
StrFalse == <<"f", "a", "l", "s", "e">>

Queries ==
  {Query(c, DefaultLimit, DefaultPage) : c \in {Str0, StrTrue, StrFalse}}
  \cup {Query(Str0, 1, p) : p \in {1, 2}}

\* ---------------------------------------------------------------- the state
VARIABLES
  users,        \* the User collection: set of [id, name, email, password]
  tasks,        \* the Task collection: function id -> [title, completed, user]
  nextTaskId,   \* next _id a new Task gets
  taskCreator,  \* history: id of an existing task -> identity that created it
  now,          \* the clock jwt compares exp against
  jwtSecret,    \* process.env.JWT_SECRET is set
  issued,       \* tokens jwt.sign has returned: set of [sub, exp, sig]
  reg,          \* register requests between their findOne and their save
  regOk,        \* history: the 201 register responses sent, as [email,
                \* password, id]: stored email, password given, id returned
  resp,         \* the response sent last, with the request it answers
  conc,         \* update and delete requests between their store operation
                \* and their response, and history: ids a delete answered 200 for
  authP,        \* the client's AuthProvider: its state, localStorage, requests
  todoApp,      \* the client's TodoApp: tasks shown, sessionStorage cache
  taskUi        \* the client's TaskForm and TaskList: flags, requests in flight

\* the React client
clientVars == <<authP, todoApp, taskUi>>

vars ==
  <<users, tasks, nextTaskId, taskCreator, now, jwtSecret, issued, reg,
    regOk, resp, conc, authP, todoApp, taskUi>>

\* ------------------------------------------------------ requests, responses
NoToken == [sub |-> 0, exp |-> 0, sig |-> "none"]
HdrAbsent == [sub |-> 0, exp |-> 0, sig |-> "absent"]
HdrGarbage == [sub |-> 0, exp |-> 0, sig |-> "garbage"]

NoUser == [id |-> 0, name |-> Str0, email |-> Str0]
NoCreds == [name |-> Str0, email |-> Str0, password |-> Str0]

Request(op, hdr, id, body, query, creds) ==
  [op |-> op, hdr |-> hdr, id |-> id, body |-> body, query |-> query,
   creds |-> creds]

AuthRequest(op, creds) == Request(op, HdrAbsent, BadId, NoBody, NoQuery, creds)
TaskRequest(op, hdr, id, body, query) ==
  Request(op, hdr, id, body, query, NoCreds)

\* a response with the request it answers and the identity the Access Guard
\* attached to it (0: none); success is the body's success field where the
\* handler sets one
Response(req, caller, status, code) ==
  [req |-> req, caller |-> caller, status |-> status, code |-> code,
   success |-> "absent", token |-> NoToken, user |-> NoUser, tasks |-> << >>, total |-> 0]

NoResponse == Response(AuthRequest("none", NoCreds), 0, 0, "none")

\* ---------------------------------------------------- the credential store
\* Password Hashing Service: a one-way digest, kept symbolic
hash(plaintext) == [alg |-> "bcrypt", pw |-> plaintext]

comparePassword(candidate, stored) == stored = hash(candidate)

\* email syntax: something, an @, something
ValidEmail(e) == \E i \in 2..(Len(e) - 1) : e[i] = "@"

\* User schema validators, run by save() before the insert
UserValid(doc) ==
  /\ Len(doc.name) >= MinNameLen
  /\ Len(doc.name) <= MaxNameLen
  /\ ValidEmail(doc.email)
  /\ Len(doc.password) >= MinPasswordLen

\* findOneByEmail querying the wrong path
findOneByEmail_byName(email) == {u \in users : u.name = email}

\* User.findOne({ email })
findOneByEmail(email) == {u \in users : u.email = email}

findById(id) == {u \in users : u.id = id}

\* what user.save() throws: a schema ValidationError, the duplicate-key
\* error of the unique index on email, or nothing
UserSaveError(doc) ==
  IF ~UserValid(doc) THEN "ValidationError"
  ELSE IF findOneByEmail(doc.email) # {} THEN "E11000"
  ELSE "none"

NewUser(doc) ==
  [id |-> Cardinality(users) + 1, name |-> doc.name, email |-> doc.email,
   password |-> hash(doc.password)]

\* UserView serializing the whole document
UserView_whole(u) == u

\* the {id, name, email} object of the auth responses
UserView(u) == [id |-> u.id, name |-> u.name, email |-> u.email]

\* ------------------------------------------------------------ Token Service
\* generateToken without expiresIn: the token has no expiry to pass
generateToken_noExpiry(userId) ==
  [sub |-> userId, exp |-> now + 1000 * JwtExpire, sig |-> "good"]

\* generateToken signing the id of the first user
generateToken_firstUser(userId) == [sub |-> 1, exp |-> now + JwtExpire, sig |-> "good"]

\* jwt.sign({ id: userId }, JWT_SECRET, { expiresIn })
generateToken(userId) == [sub |-> userId, exp |-> now + JwtExpire, sig |-> "good"]

\* jwt.verify: signature, then expiry
verifyToken(hdr) == jwtSecret /\ hdr.sig = "good" /\ now < hdr.exp

\* auth honouring only the newest token of a user
auth_latestOnly(hdr) ==
  IF /\ verifyToken(hdr)
     /\ findById(hdr.sub) # {}
     /\ ~\E t \in issued : t.sub = hdr.sub /\ t.exp > hdr.exp
  THEN hdr.sub ELSE 0

\* Access Guard: the identity a request runs as, 0 when it is rejected
auth(hdr) ==
  IF verifyToken(hdr) /\ findById(hdr.sub) # {} THEN hdr.sub ELSE 0

Unauthorized(req) == Response(req, 0, 401, "UNAUTHORIZED")

\* what a client can put in the Authorization header: nothing, garbage, a
\* token the server issued, or one with its signature replaced
Headers ==
  {HdrAbsent, HdrGarbage} \cup issued \cup {[t EXCEPT !.sig = "bad"] : t \in issued}

\* ---------------------------------------------------------------- auth routes
\* trimmedEmail without the lower-casing
trimmedEmail_noLower(email) == trim(email)

\* email.toLowerCase().trim()
trimmedEmail(email) == trim(toLowerCase(email))

\* registerCatch without the duplicate-key branch
registerCatch_noDuplicate(error) ==
  CASE error = "ValidationError" -> <<400, "VALIDATION_ERROR">>
    [] OTHER -> <<500, "SERVER_ERROR">>

\* the catch block of POST /register: every branch answers success: false,
\* the duplicate-key branch with the code USER_EXISTS
registerCatch(error) ==
  CASE error = "ValidationError" -> <<400, "VALIDATION_ERROR">>
    [] error = "E11000" -> <<400, "USER_EXISTS">>
    [] OTHER -> <<500, "SERVER_ERROR">>

IdleReg == [pc |-> "idle", creds |-> NoCreds, doc |-> NoCreds]

\* POST /register up to the answer of User.findOne
RegisterCheck(r, creds) ==
  LET req == AuthRequest("register", creds)
      email == trimmedEmail(creds.email)
  IN
  /\ reg[r].pc = "idle"
  /\ IF creds.name = Str0 \/ creds.email = Str0 \/ creds.password = Str0
     THEN /\ resp' = Response(req, 0, 400, "MISSING_FIELDS")
          /\ UNCHANGED reg
     ELSE IF Len(creds.password) < MinPasswordLen
     THEN /\ resp' = Response(req, 0, 400, "PASSWORD_TOO_SHORT")
          /\ UNCHANGED reg
     ELSE IF findOneByEmail(email) # {}
     THEN /\ resp' = Response(req, 0, 400, "USER_EXISTS")
          /\ UNCHANGED reg
     ELSE /\ reg' = [reg EXCEPT ![r] =
                       [pc |-> "checked", creds |-> creds,
                        doc |-> [name |-> trim(creds.name), email |-> email,
                                 password |-> creds.password]]]
          /\ UNCHANGED resp
  /\ UNCHANGED <<users, tasks, nextTaskId, taskCreator, now, jwtSecret,
                 issued, regOk>>

\* POST /register from user.save() to the response
RegisterSave(r) ==
  LET req == AuthRequest("register", reg[r].creds)
      doc == reg[r].doc
      error == UserSaveError(doc)
      user == NewUser(doc)
      token == generateToken(user.id)
  IN
  /\ reg[r].pc = "checked"
  /\ reg' = [reg EXCEPT ![r] = IdleReg]
  /\ IF error # "none"
     THEN /\ resp' = [Response(req, 0, registerCatch(error)[1],
                               registerCatch(error)[2])
                        EXCEPT !.success = "false"]
          /\ UNCHANGED <<users, issued, regOk>>
     ELSE /\ users' = users \cup {user}
          /\ IF ~jwtSecret
             THEN /\ resp' = [Response(req, 0, registerCatch("JwtError")[1],
                                       registerCatch("JwtError")[2])
                                EXCEPT !.success = "false"]
                  /\ UNCHANGED <<issued, regOk>>
             ELSE /\ issued' = issued \cup {token}
                  /\ regOk' = regOk \cup {[email |-> doc.email,
                                            password |-> doc.password,
                                            id |-> user.id]}
                  /\ resp' = [Response(req, 0, 201, "OK") EXCEPT
                                !.success = "true",
                                !.token = token, !.user = UserView(user)]
  /\ UNCHANGED <<tasks, nextTaskId, taskCreator, now, jwtSecret>>

\* loginOutcome with one answer for both credential failures
loginOutcome_merged(creds) ==
  LET found == findOneByEmail(trimmedEmail(creds.email)) IN
  IF creds.email = Str0 \/ creds.password = Str0 THEN <<400, "MISSING_FIELDS">>
  ELSE IF found = {} THEN <<401, "INVALID_PASSWORD">>
  ELSE IF ~comparePassword(creds.password, (CHOOSE u \in found : TRUE).password)
  THEN <<401, "INVALID_PASSWORD">>
  ELSE IF ~jwtSecret THEN <<500, "SERVER_ERROR">>
  ELSE <<200, "OK">>

\* POST /login: the status and code it answers with
loginOutcome(creds) ==
  LET found == findOneByEmail(trimmedEmail(creds.email)) IN
  IF creds.email = Str0 \/ creds.password = Str0 THEN <<400, "MISSING_FIELDS">>
  ELSE IF found = {} THEN <<404, "USER_NOT_FOUND">>
  ELSE IF ~comparePassword(creds.password, (CHOOSE u \in found : TRUE).password)
  THEN <<401, "INVALID_PASSWORD">>
  ELSE IF ~jwtSecret THEN <<500, "SERVER_ERROR">>
  ELSE <<200, "OK">>

\* Login saving the user it found, the save hashing the stored password again
Login_rehash(creds) ==
  LET req == AuthRequest("login", creds)
      out == loginOutcome(creds)
      user == CHOOSE u \in findOneByEmail(trimmedEmail(creds.email)) : TRUE
  IN
  /\ IF out[1] # 200
     THEN /\ resp' = [Response(req, 0, out[1], out[2])
                        EXCEPT !.success = "false"]
          /\ UNCHANGED <<issued, users>>
     ELSE /\ issued' = issued \cup {generateToken(user.id)}
          /\ users' = (users \ {user})
                        \cup {[user EXCEPT !.password.alg = "bcrypt(bcrypt)"]}
          /\ resp' = [Response(req, 0, 200, "OK") EXCEPT
                        !.success = "true",
                        !.token = generateToken(user.id),
                        !.user = UserView(user)]
  /\ UNCHANGED <<tasks, nextTaskId, taskCreator, now, jwtSecret, reg, regOk>>

\* POST /login
Login(creds) ==
  LET req == AuthRequest("login", creds)
      out == loginOutcome(creds)
      user == CHOOSE u \in findOneByEmail(trimmedEmail(creds.email)) : TRUE
  IN
  /\ IF out[1] # 200
     THEN /\ resp' = [Response(req, 0, out[1], out[2])
                        EXCEPT !.success = "false"]
          /\ UNCHANGED issued
     ELSE /\ issued' = issued \cup {generateToken(user.id)}
          /\ resp' = [Response(req, 0, 200, "OK") EXCEPT
                        !.success = "true",
                        !.token = generateToken(user.id),
                        !.user = UserView(user)]
  /\ UNCHANGED <<users, tasks, nextTaskId, taskCreator, now, jwtSecret, reg,
                 regOk>>

\* GET /me
Me(hdr) ==
  LET req == TaskRequest("me", hdr, BadId, NoBody, NoQuery)
      caller == auth(hdr)
  IN
  /\ IF caller = 0
     THEN resp' = Unauthorized(req)
     ELSE resp' = [Response(req, caller, 200, "OK") EXCEPT
                     !.user = UserView(CHOOSE u \in findById(caller) : TRUE)]
  /\ UNCHANGED <<users, tasks, nextTaskId, taskCreator, now, jwtSecret,
                 issued, reg, regOk>>

\* POST /logout
Logout(hdr) ==
  LET req == TaskRequest("logout", hdr, BadId, NoBody, NoQuery)
      caller == auth(hdr)
  IN
  /\ IF caller = 0
     THEN resp' = Unauthorized(req)
     ELSE resp' = Response(req, caller, 200, "LOGOUT_OK")
  /\ UNCHANGED <<users, tasks, nextTaskId, taskCreator, now, jwtSecret,
                 issued, reg, regOk>>

\* the clock advances
Tick ==
  /\ now < MaxTime
  /\ now' = now + 1
  /\ UNCHANGED <<users, tasks, nextTaskId, taskCreator, jwtSecret, issued,
                 reg, regOk, resp>>

\* ------------------------------------------------------------ the task store
\* Task schema validators (title required, 1..200 after trim; user required)
TaskValid(doc) ==
  /\ Len(doc.title) >= 1
  /\ Len(doc.title) <= MaxTitleLen
  /\ doc.user # 0

\* populate('user', 'name email')
populate(uid) ==
  IF findById(uid) = {} THEN NoUser
  ELSE UserView(CHOOSE u \in findById(uid) : TRUE)

\* a task as a response carries it, owner populated
TaskView(id) ==
  [id |-> id, title |-> tasks[id].title, completed |-> tasks[id].completed,
   user |-> populate(tasks[id].user)]

\* the same, owner left as the bare id
TaskDoc(id) ==
  [id |-> id, title |-> tasks[id].title, completed |-> tasks[id].completed,
   user |-> [NoUser EXCEPT !.id = tasks[id].user]]

\* ids descending: sort('-createdAt')
RECURSIVE SortedDesc(_)
SortedDesc(ids) ==
  IF ids = {} THEN << >>
  ELSE LET m == CHOOSE i \in ids : \A j \in ids : j <= i
       IN <<m>> \o SortedDesc(ids \ {m})

\* Page skipping page * limit documents instead of (page - 1) * limit
Page_pageAsSkip(seq, limit, skip) ==
  SubSeq(seq, skip + limit + 1,
         IF skip + 2 * limit < Len(seq) THEN skip + 2 * limit ELSE Len(seq))

\* .limit(limit).skip(skip) of a sorted result
Page(seq, limit, skip) ==
  SubSeq(seq, skip + 1, IF skip + limit < Len(seq) THEN skip + limit ELSE Len(seq))

\* ----------------------------------------------------- task routes (guarded)
\* findOneFilter matching on the id alone
findOneFilter_idOnly(id, caller) == id \in DOMAIN tasks

\* the filter { _id: req.params.id, user: req.user._id }
findOneFilter(id, caller) == id \in DOMAIN tasks /\ tasks[id].user = caller

\* listFilter without the completed condition
listFilter_ignoreCompleted(id, caller, query) == tasks[id].user = caller

\* listFilter without the owner
listFilter_noOwner(id, caller, query) ==
  query.completed # Str0 => tasks[id].completed = (query.completed = StrTrue)

\* the filter { user: req.user._id } with the optional completed
listFilter(id, caller, query) ==
  /\ tasks[id].user = caller
  /\ query.completed # Str0 => tasks[id].completed = (query.completed = StrTrue)

\* titleCheck measuring the title as given, not trimmed
titleCheck_noTrim(title, emptyCode) ==
  IF ~Truthy(title) THEN <<400, emptyCode>>
  ELSE IF title.t # "str" THEN <<500, "SERVER_ERROR">>
  ELSE IF Len(title.s) = 0 THEN <<400, emptyCode>>
  ELSE IF Len(title.s) > MaxTitleLen THEN <<400, "TITLE_TOO_LONG">>
  ELSE <<0, "OK">>

\* the title checks shared by create and update: the status and message
\* they answer with, 0 when they pass
titleCheck(title, emptyCode) ==
  IF ~Truthy(title) THEN <<400, emptyCode>>
  ELSE IF title.t # "str" THEN <<500, "SERVER_ERROR">>
  ELSE IF Len(trim(title.s)) = 0 THEN <<400, emptyCode>>
  ELSE IF Len(trim(title.s)) > MaxTitleLen THEN <<400, "TITLE_TOO_LONG">>
  ELSE <<0, "OK">>

\* updateData taking every field of the body
updateData_wholeBody(body) ==
  [hasTitle |-> body.title.t # "undef",
   title |-> IF body.title.t = "str" THEN trim(body.title.s) ELSE Str0,
   hasCompleted |-> body.completed.t # "undef",
   completed |-> Truthy(body.completed),
   hasUser |-> body.user # 0, user |-> body.user]

\* updateData of PUT /:id
updateData(body) ==
  [hasTitle |-> body.title.t # "undef",
   title |-> IF body.title.t = "str" THEN trim(body.title.s) ELSE Str0,
   hasCompleted |-> body.completed.t # "undef",
   completed |-> Truthy(body.completed),
   hasUser |-> FALSE, user |-> 0]

\* $set of an update document on a stored task
applyUpdate(task, upd) ==
  [title |-> IF upd.hasTitle THEN upd.title ELSE task.title,
   completed |-> IF upd.hasCompleted THEN upd.completed ELSE task.completed,
   user |-> IF upd.hasUser THEN upd.user ELSE task.user]

\* POST /tasks
CreateTask(hdr, body) ==
  LET req == TaskRequest("create", hdr, BadId, body, NoQuery)
      caller == auth(hdr)
      check == titleCheck(body.title, "TITLE_REQUIRED")
      doc == [title |-> trim(body.title.s), completed |-> FALSE, user |-> caller]
      id == nextTaskId
  IN
  /\ IF caller = 0
     THEN /\ resp' = Unauthorized(req)
          /\ UNCHANGED <<tasks, nextTaskId, taskCreator>>
     ELSE IF check[1] # 0
     THEN /\ resp' = Response(req, caller, check[1], check[2])
          /\ UNCHANGED <<tasks, nextTaskId, taskCreator>>
     ELSE /\ nextTaskId <= MaxTasks
          /\ TaskValid(doc)
          /\ tasks' = (id :> doc) @@ tasks
          /\ taskCreator' = (id :> caller) @@ taskCreator
          /\ nextTaskId' = nextTaskId + 1
          /\ resp' = [Response(req, caller, 201, "TASK_CREATED") EXCEPT
                        !.tasks = <<[id |-> id, title |-> doc.title,
                                     completed |-> doc.completed,
                                     user |-> populate(caller)]>>]
  /\ UNCHANGED <<users, now, jwtSecret, issued, reg, regOk>>

\* GET /tasks
ListTasks(hdr, query) ==
  LET req == TaskRequest("list", hdr, BadId, NoBody, query)
      caller == auth(hdr)
      found == {id \in DOMAIN tasks : listFilter(id, caller, query)}
      sorted == SortedDesc(found)
      page == Page(sorted, query.limit, (query.page - 1) * query.limit)
  IN
  /\ IF caller = 0
     THEN resp' = Unauthorized(req)
     ELSE resp' = [Response(req, caller, 200, "OK") EXCEPT
                     !.tasks = [i \in 1..Len(page) |-> TaskView(page[i])],
                     !.total = Cardinality(found)]
  /\ UNCHANGED <<users, tasks, nextTaskId, taskCreator, now, jwtSecret,
                 issued, reg, regOk>>

\* PUT /tasks/:id
UpdateTask(hdr, id, body) ==
  LET req == TaskRequest("update", hdr, id, body, NoQuery)
      caller == auth(hdr)
      check == IF body.title.t = "undef" THEN <<0, "OK">>
               ELSE titleCheck(body.title, "TITLE_EMPTY")
      updated == applyUpdate(tasks[id], updateData(body))
  IN
  /\ IF caller = 0
     THEN /\ resp' = Unauthorized(req)
          /\ UNCHANGED tasks
     ELSE IF check[1] # 0
     THEN /\ resp' = Response(req, caller, check[1], check[2])
          /\ UNCHANGED tasks
     ELSE IF id = BadId
     THEN /\ resp' = Response(req, caller, 400, "INVALID_ID")
          /\ UNCHANGED tasks
     ELSE IF ~findOneFilter(id, caller)
     THEN /\ resp' = Response(req, caller, 404, "TASK_NOT_FOUND")
          /\ UNCHANGED tasks
     ELSE /\ tasks' = [tasks EXCEPT ![id] = updated]
          /\ resp' = [Response(req, caller, 200, "TASK_UPDATED") EXCEPT
                        !.tasks = <<[id |-> id, title |-> updated.title,
                                     completed |-> updated.completed,
                                     user |-> populate(updated.user)]>>]
  /\ UNCHANGED <<users, nextTaskId, taskCreator, now, jwtSecret, issued, reg,
                 regOk>>

\* a delete that leaves the document in the collection
withoutTask_keep(id) == DOMAIN tasks

\* findOneAndDelete: the ids left in the collection
withoutTask(id) == DOMAIN tasks \ {id}

\* DELETE /tasks/:id
DeleteTask(hdr, id) ==
  LET req == TaskRequest("delete", hdr, id, NoBody, NoQuery)
      caller == auth(hdr)
      rest == withoutTask(id)
  IN
  /\ IF caller = 0
     THEN /\ resp' = Unauthorized(req)
          /\ UNCHANGED <<tasks, taskCreator>>
     ELSE IF id = BadId
     THEN /\ resp' = Response(req, caller, 400, "INVALID_ID")
          /\ UNCHANGED <<tasks, taskCreator>>
     ELSE IF ~findOneFilter(id, caller)
     THEN /\ resp' = Response(req, caller, 404, "TASK_NOT_FOUND")
          /\ UNCHANGED <<tasks, taskCreator>>
     ELSE /\ tasks' = [i \in rest |-> tasks[i]]
          /\ taskCreator' = [i \in rest |-> taskCreator[i]]
          /\ resp' = [Response(req, caller, 200, "TASK_DELETED") EXCEPT
                        !.tasks = <<TaskDoc(id)>>]
  /\ UNCHANGED <<users, nextTaskId, now, jwtSecret, issued, reg, regOk>>

\* ------------------------------------------- task routes without the guard
Digit(n) ==
  CASE n = 0 -> "0" [] n = 1 -> "1" [] n = 2 -> "2" [] n = 3 -> "3"
    [] n = 4 -> "4" [] n = 5 -> "5" [] n = 6 -> "6" [] n = 7 -> "7"
    [] n = 8 -> "8" [] OTHER -> "9"

\* Mongoose String cast with the schema's trim setter
castTitle(v) ==
  CASE v.t = "str" -> trim(v.s)
    [] v.t = "num" -> <<Digit(v.n)>>
    [] v.t = "bool" -> IF v.b THEN StrTrue ELSE StrFalse
    [] OTHER -> Str0

\* Mongoose Boolean cast: true, 'true', 1, '1', 'yes' and false, 'false', 0,
\* '0', 'no'; absent gives the default
castCompleted(v) ==
  CASE v.t = "bool" -> v.b
    [] v.t = "num" -> v.n = 1
    [] v.t = "str" -> v.s \in {StrTrue, <<"1">>, <<"y", "e", "s">>}
    [] OTHER -> FALSE

\* new Task(req.body)
legacyDoc(body) ==
  [title |-> castTitle(body.title), completed |-> castCompleted(body.completed),
   user |-> body.user]

\* req.body as the update document of findByIdAndUpdate
legacyUpdate(body) ==
  [hasTitle |-> body.title.t # "undef", title |-> castTitle(body.title),
   hasCompleted |-> body.completed.t # "undef",
   completed |-> castCompleted(body.completed),
   hasUser |-> body.user # 0, user |-> body.user]

\* a handler that threw outside any try: no response is sent
NoAnswer(req) == Response(req, 0, 0, "NO_RESPONSE")

\* what the client gets when an async handler rejects outside any try: under
\* Express 4 nothing, under Express 5 the default error handler's 500
Unhandled(req) == {NoAnswer(req), Response(req, 0, 500, "UNHANDLED_ERROR")}

\* POST /tasks, unguarded
LegacyCreate(hdr, body) ==
  LET req == TaskRequest("create", hdr, BadId, body, NoQuery)
      doc == legacyDoc(body)
      id == nextTaskId
  IN
  /\ IF ~TaskValid(doc)
     THEN /\ resp' \in Unhandled(req)
          /\ UNCHANGED <<tasks, nextTaskId, taskCreator>>
     ELSE /\ nextTaskId <= MaxTasks
          /\ tasks' = (id :> doc) @@ tasks
          /\ taskCreator' = (id :> auth(hdr)) @@ taskCreator
          /\ nextTaskId' = nextTaskId + 1
          /\ resp' = [Response(req, 0, 200, "OK") EXCEPT
                        !.tasks = <<[id |-> id, title |-> doc.title,
                                     completed |-> doc.completed,
                                     user |-> [NoUser EXCEPT !.id = doc.user]]>>]
  /\ UNCHANGED <<users, now, jwtSecret, issued, reg, regOk>>

\* GET /tasks, unguarded
LegacyList(hdr) ==
  LET req == TaskRequest("list", hdr, BadId, NoBody, NoQuery)
      ids == SortedDesc(DOMAIN tasks)
  IN
  /\ resp' = [Response(req, 0, 200, "OK") EXCEPT
                !.tasks = [i \in 1..Len(ids) |-> TaskDoc(ids[Len(ids) + 1 - i])],
                !.total = Len(ids)]
  /\ UNCHANGED <<users, tasks, nextTaskId, taskCreator, now, jwtSecret,
                 issued, reg, regOk>>

\* PUT /tasks/:id, unguarded
LegacyUpdate(hdr, id, body) ==
  LET req == TaskRequest("update", hdr, id, body, NoQuery)
      updated == applyUpdate(tasks[id], legacyUpdate(body))
  IN
  /\ IF id = BadId
     THEN /\ resp' \in Unhandled(req)
          /\ UNCHANGED tasks
     ELSE IF id \notin DOMAIN tasks
     THEN /\ resp' = Response(req, 0, 200, "NULL")
          /\ UNCHANGED tasks
     ELSE /\ tasks' = [tasks EXCEPT ![id] = updated]
          /\ resp' = [Response(req, 0, 200, "OK") EXCEPT
                        !.tasks = <<[id |-> id, title |-> updated.title,
                                     completed |-> updated.completed,
                                     user |-> [NoUser EXCEPT !.id = updated.user]]>>]
  /\ UNCHANGED <<users, nextTaskId, taskCreator, now, jwtSecret, issued, reg,
                 regOk>>

\* DELETE /tasks/:id, unguarded
LegacyDelete(hdr, id) ==
  LET req == TaskRequest("delete", hdr, id, NoBody, NoQuery)
      rest == DOMAIN tasks \ {id}
  IN
  /\ IF id = BadId
     THEN /\ resp' \in Unhandled(req)
          /\ UNCHANGED <<tasks, taskCreator>>
     ELSE /\ tasks' = [i \in rest |-> tasks[i]]
          /\ taskCreator' = [i \in rest |-> taskCreator[i]]
          /\ resp' = Response(req, 0, 200, "TASK_DELETED")
  /\ UNCHANGED <<users, nextTaskId, now, jwtSecret, issued, reg, regOk>>

\* ------------------------------------------------------- the specifications
\* the client takes the response off the wire
Receive ==
  /\ resp # NoResponse
  /\ resp' = NoResponse
  /\ UNCHANGED <<users, tasks, nextTaskId, taskCreator, now, jwtSecret,
                 issued, reg, regOk>>

Regs == 1..MaxReg

Slots == 1..MaxInflight

\* no request in flight, no delete answered yet
ConcInit == [slots |-> [s \in Slots |-> NoResponse], deleted |-> {}]

\* the client before the page is loaded: a token is the id of the user it
\* was issued for, 0 stands for null
NoEvent == [ev |-> "none", outcome |-> "none"]

AuthProviderInit ==
  [mounted |-> FALSE, stored |-> 0, token |-> 0, user |-> 0, loading |-> TRUE,
   timer |-> 0, checks |-> {}, calls |-> {}, last |-> NoEvent]

NoCache == [has |-> FALSE, fresh |-> FALSE, data |-> << >>]

TodoAppInit ==
  [mounted |-> FALSE, tasks |-> << >>, cache |-> NoCache, fetches |-> {}]

TaskUiInit ==
  [mounted |-> FALSE, title |-> Str0, isSubmitting |-> FALSE, adds |-> 0,
   updatingTasks |-> {}, deletingTasks |-> {},
   toggles |-> [i \in TaskIds |-> 0], deletes |-> [i \in TaskIds |-> 0],
   shown |-> {}, ignored |-> FALSE]

Ann == [id |-> 1, name |-> trim(NameAnn), email |-> EmailA,
        password |-> hash(PwOne)]
Bob == [id |-> 2, name |-> trim(NameAnn), email |-> EmailB,
        password |-> hash(PwOne)]

InitCommon ==
  /\ tasks = << >>
  /\ nextTaskId = 1
  /\ taskCreator = << >>
  /\ now = 0
  /\ reg = [r \in Regs |-> IdleReg]
  /\ resp = NoResponse
  /\ conc = ConcInit
  /\ authP = AuthProviderInit
  /\ todoApp = TodoAppInit
  /\ taskUi = TaskUiInit

\* the auth routes on an empty store
InitAuth ==
  /\ InitCommon
  /\ users = {}
  /\ issued = {}
  /\ regOk = {}
  /\ jwtSecret = TRUE

\* a handler runs when no response is waiting to be received
Idle == resp = NoResponse

\* a handler running alone, with no request in flight beside it and the
\* client out of the picture
Serial == Idle /\ UNCHANGED <<conc, clientVars>>

NextAuth ==
  \/ Serial /\ \E r \in Regs, creds \in RegisterBodies : RegisterCheck(r, creds)
  \/ Serial /\ \E r \in Regs : RegisterSave(r)
  \/ Serial /\ \E creds \in LoginBodies : Login(creds)
  \/ Serial /\ \E hdr \in Headers : Me(hdr)
  \/ Serial /\ \E hdr \in Headers : Logout(hdr)
  \/ Serial /\ Tick
  \/ Receive /\ UNCHANGED <<conc, clientVars>>

SpecAuth == InitAuth /\ [][NextAuth]_vars

\* the same with JWT_SECRET possibly missing from the environment
InitEnv ==
  /\ InitCommon
  /\ users = {}
  /\ issued = {}
  /\ regOk = {}
  /\ jwtSecret \in BOOLEAN

SpecEnv == InitEnv /\ [][NextAuth]_vars

\* the guarded task routes: Ann and Bob are registered, Ann's token is one
\* tick older than Bob's
Init ==
  /\ InitCommon
  /\ users = {Ann, Bob}
  /\ issued = {[sub |-> Ann.id, exp |-> JwtExpire - 1, sig |-> "good"],
               [sub |-> Bob.id, exp |-> JwtExpire, sig |-> "good"]}
  /\ regOk = {[email |-> EmailA, password |-> PwOne, id |-> Ann.id],
              [email |-> EmailB, password |-> PwOne, id |-> Bob.id]}
  /\ jwtSecret = TRUE

Next ==
  \/ Serial /\ \E hdr \in Headers, body \in Bodies : CreateTask(hdr, body)
  \/ Serial /\ \E hdr \in Headers, query \in Queries : ListTasks(hdr, query)
  \/ Serial /\ \E hdr \in Headers, id \in IdParams, body \in Bodies :
               UpdateTask(hdr, id, body)
  \/ Serial /\ \E hdr \in Headers, id \in IdParams : DeleteTask(hdr, id)
  \/ Serial /\ \E hdr \in Headers : Me(hdr)
  \/ Serial /\ Tick
  \/ Receive /\ UNCHANGED <<conc, clientVars>>

Spec == Init /\ [][Next]_vars

\* ------------------------------------- update and delete requests in flight
\* requests of one signed-in user that pass validation
ConcHeaders == {t \in issued : t.sub = Ann.id}
ConcBodies == {Body(JStr(TitleTea), JUndef, 0)}

\* the handler has run its store operation and built its response; populate's
\* second query and the way back to the client are still ahead, and other
\* requests are handled meanwhile
Defer(s) ==
  /\ resp.req.op \in {"update", "delete"}
  /\ conc.slots[s] = NoResponse
  /\ \A q \in 1..(s - 1) : conc.slots[q] # NoResponse
  /\ conc' = [conc EXCEPT !.slots[s] = resp]
  /\ resp' = NoResponse
  /\ UNCHANGED <<users, tasks, nextTaskId, taskCreator, now, jwtSecret,
                 issued, reg, regOk, clientVars>>

\* the response of slot s returns to its client
Deliver(s) ==
  LET r == conc.slots[s] IN
  /\ r # NoResponse
  /\ conc' = [slots |-> [conc.slots EXCEPT ![s] = NoResponse],
              deleted |-> IF r.req.op = "delete" /\ r.status = 200
                          THEN conc.deleted \cup {r.req.id}
                          ELSE conc.deleted]
  /\ UNCHANGED <<users, tasks, nextTaskId, taskCreator, now, jwtSecret,
                 issued, reg, regOk, resp, clientVars>>

NextConc ==
  \/ Idle /\ UNCHANGED <<conc, clientVars>>
          /\ \E hdr \in ConcHeaders : CreateTask(hdr, Body(JStr(TitleMilk), JUndef, 0))
  \/ Idle /\ UNCHANGED <<conc, clientVars>>
          /\ \E hdr \in ConcHeaders, id \in TaskIds, body \in ConcBodies :
               UpdateTask(hdr, id, body)
  \/ Idle /\ UNCHANGED <<conc, clientVars>>
          /\ \E hdr \in ConcHeaders, id \in TaskIds : DeleteTask(hdr, id)
  \/ \E s \in Slots : Defer(s)
  \/ \E s \in Slots : Deliver(s)
  \/ resp.req.op = "create" /\ Receive /\ UNCHANGED <<conc, clientVars>>

SpecConc == Init /\ [][NextConc]_vars

\* the task routes as the first router of the routes file serves them
NextLegacy ==
  \/ Serial /\ \E hdr \in Headers, body \in Bodies : LegacyCreate(hdr, body)
  \/ Serial /\ \E hdr \in Headers : LegacyList(hdr)
  \/ Serial /\ \E hdr \in Headers, id \in IdParams, body \in Bodies :
               LegacyUpdate(hdr, id, body)
  \/ Serial /\ \E hdr \in Headers, id \in IdParams : LegacyDelete(hdr, id)
  \/ Serial /\ \E hdr \in Headers : Me(hdr)
  \/ Serial /\ Tick
  \/ Receive /\ UNCHANGED <<conc, clientVars>>

SpecLegacy == Init /\ [][NextLegacy]_vars

\* ------------------------------------------------------------------ claims
GuardedTaskOps == {"create", "list", "update", "delete"}

\* a patch the data model accepts: the title, when given, is a string of
\* 1..200 characters after trimming
ValidPatch(body) ==
  \/ body.title.t = "undef"
  \/ /\ body.title.t = "str"
     /\ Len(trim(body.title.s)) >= 1
     /\ Len(trim(body.title.s)) <= MaxTitleLen

\* C1: no response to an authenticated task operation contains a task of
\* another owner, and no task of another owner is changed or removed by it
C1_OwnershipIsolation ==
  [][(resp'.caller # 0 /\ resp'.req.op \in GuardedTaskOps) =>
       /\ \A i \in 1..Len(resp'.tasks) : resp'.tasks[i].user.id = resp'.caller
       /\ \A id \in DOMAIN tasks :
            tasks[id].user # resp'.caller =>
              id \in DOMAIN tasks' /\ tasks'[id] = tasks[id]]_vars

\* Ann has listed her tasks and got some while Bob has tasks of his own
C1_Witness ==
  /\ resp.req.op = "list"
  /\ resp.caller = Ann.id
  /\ Len(resp.tasks) > 0
  /\ \E id \in DOMAIN tasks : tasks[id].user = Bob.id

\* C2 as stated: every update or delete of a task by a user who does not own
\* it answers 404 and leaves the store alone; by its owner, with a valid
\* patch, it succeeds
C2_AsStated ==
  [][(resp'.caller # 0 /\ resp'.req.op \in {"update", "delete"}
        /\ resp'.req.id \in DOMAIN tasks) =>
       IF tasks[resp'.req.id].user # resp'.caller
       THEN resp'.status = 404 /\ tasks' = tasks
       ELSE ValidPatch(resp'.req.body) => resp'.status = 200]_vars

\* C2: a delete, or an update with a valid patch, of a task by a user who
\* does not own it answers 404; an update with an invalid patch answers with
\* the validation failure; all of them leave the store alone.  By the owner,
\* an update with a valid patch and a delete succeed and take effect.
C2_ForeignNotFoundOwnSucceeds ==
  [][(resp'.caller # 0 /\ resp'.req.op \in {"update", "delete"}
        /\ resp'.req.id \in DOMAIN tasks) =>
       IF tasks[resp'.req.id].user # resp'.caller
       THEN /\ tasks' = tasks
            /\ IF ValidPatch(resp'.req.body)
               THEN resp'.status = 404
               ELSE resp'.status \in {400, 500}
       ELSE ValidPatch(resp'.req.body) =>
              /\ resp'.status = 200
              /\ resp'.req.op = "delete" => resp'.req.id \notin DOMAIN tasks'
              /\ resp'.req.op = "update" =>
                   /\ resp'.req.id \in DOMAIN tasks'
                   /\ resp'.req.body.title.t = "str" =>
                        tasks'[resp'.req.id].title = trim(resp'.req.body.title.s)]_vars

\* Bob got 404 for an update of a task of Ann's that is still there
C2_Witness ==
  /\ resp.req.op = "update"
  /\ resp.caller = Bob.id
  /\ resp.status = 404
  /\ resp.req.id \in DOMAIN tasks
  /\ tasks[resp.req.id].user = Ann.id

\* what update and delete answer when the caller has no task of that id:
\* a function of the request alone
AnswerWithoutTask(req) ==
  IF req.op = "update" /\ ~ValidPatch(req.body)
  THEN IF req.body.title.t = "str"
       THEN IF Len(trim(req.body.title.s)) = 0
            THEN <<400, "TITLE_EMPTY">> ELSE <<400, "TITLE_TOO_LONG">>
       ELSE <<500, "SERVER_ERROR">>
  ELSE IF req.id = BadId THEN <<400, "INVALID_ID">>
  ELSE <<404, "TASK_NOT_FOUND">>

\* C3: update and delete answer the same, status and body, whether the id
\* names a task of another user or no task at all
C3_ExistenceNotLeaked ==
  [][(resp'.caller # 0 /\ resp'.req.op \in {"update", "delete"}
        /\ ~(resp'.req.id \in DOMAIN tasks
             /\ tasks[resp'.req.id].user = resp'.caller)) =>
       /\ <<resp'.status, resp'.code>> = AnswerWithoutTask(resp'.req)
       /\ resp'.tasks = << >>
       /\ resp'.user = NoUser
       /\ resp'.token = NoToken
       /\ resp'.total = 0]_vars

\* Bob got the not-found answer for a delete of a task of Ann's
C3_Witness ==
  /\ resp.req.op = "delete"
  /\ resp.caller = Bob.id
  /\ resp.code = "TASK_NOT_FOUND"
  /\ resp.req.id \in DOMAIN tasks
  /\ tasks[resp.req.id].user = Ann.id

\* a header the Access Guard must accept: a token the server issued, not
\* yet expired
AcceptableHeader(hdr) == hdr \in issued /\ now < hdr.exp

\* C4: a task operation or GET /me whose header is absent, garbage, wrongly
\* signed or expired is answered 401 and does nothing to the task store
C4_EveryOperationGuarded ==
  [][(resp'.req.op \in GuardedTaskOps \cup {"me"}
        /\ ~AcceptableHeader(resp'.req.hdr)) =>
       resp'.status = 401 /\ tasks' = tasks]_vars

\* C5: the owner of a task just created is the identity the Access Guard
\* resolved for the request, whatever the body says
C5_OwnerFromGuard ==
  [][(resp'.req.op = "create" /\ nextTaskId' # nextTaskId) =>
       /\ auth(resp'.req.hdr) # 0
       /\ tasks'[nextTaskId].user = auth(resp'.req.hdr)]_vars

\* C6: every existing task is owned by the user who created it
C6_OwnerImmutable ==
  \A id \in DOMAIN tasks : tasks[id].user = taskCreator[id]

\* an update whose body names another user as owner has succeeded
C6_Witness ==
  /\ resp.req.op = "update"
  /\ resp.status = 200
  /\ resp.req.body.user # 0
  /\ resp.req.body.user # resp.caller
  /\ resp.req.id \in DOMAIN tasks

\* the login key of an address: trimmed and lower-cased
NormalizedEmail(e) == trim(toLowerCase(e))

UsersWithEmail(us, e) == {u \in us : NormalizedEmail(u.email) = e}

\* the successful registrations of an address
RegOkFor(e) == {r \in regOk : NormalizedEmail(r.email) = e}

\* C7: of the register requests for one normalized email at most one is
\* answered 201 and it creates the only user of that email; every other one
\* that passes validation is answered UserExists after that success, creates
\* nothing, and none is answered with a server error
C7_OneWinnerOneUserExists ==
  [][(resp'.req.op = "register" /\ resp' # resp) =>
       LET e == NormalizedEmail(resp'.req.creds.email) IN
       /\ resp'.status # 500
       /\ resp'.status = 201 =>
            /\ RegOkFor(e) = {}
            /\ UsersWithEmail(users, e) = {}
            /\ Cardinality(UsersWithEmail(users', e)) = 1
       /\ resp'.status # 201 => users' = users
       /\ resp'.code = "USER_EXISTS" =>
            /\ RegOkFor(e) # {}
            /\ Cardinality(UsersWithEmail(users, e)) = 1]_vars

\* a register request that found no user at its check lost the insert to
\* another one and was answered UserExists
C7_Witness ==
  /\ resp.req.op = "register"
  /\ resp.code = "USER_EXISTS"
  /\ resp.success = "false"
  /\ resp.status = 400
  /\ Cardinality(UsersWithEmail(users, NormalizedEmail(resp.req.creds.email))) = 1

\* C8: no two users share a normalized email or an id
C8_UniqueEmailAndId ==
  \A u, v \in users :
    u # v => u.id # v.id /\ NormalizedEmail(u.email) # NormalizedEmail(v.email)

\* two users exist and a register under the upper-case spelling of an
\* address in use was turned down
C8_Witness ==
  /\ Cardinality(users) = 2
  /\ resp.req.op = "register"
  /\ resp.req.creds.email = EmailAUpper
  /\ resp.code = "USER_EXISTS"

\* C9: a register request that is answered with an error has changed
\* nothing in the credential store
C9_FailedRegisterLeavesNoUser ==
  [][(resp'.req.op = "register" /\ resp' # resp /\ resp'.status >= 400) =>
       users' = users]_vars

\* C10: a login with both fields given answers 404 UserNotFound when no user
\* has the email and 401 InvalidCredentials when a user has it under another
\* password, and neither answer carries a token
C10_LoginFailuresDistinct ==
  (resp.req.op = "login" /\ resp.req.creds.email # Str0
     /\ resp.req.creds.password # Str0) =>
    LET found == UsersWithEmail(users, NormalizedEmail(resp.req.creds.email)) IN
    /\ found = {} =>
         resp.status = 404 /\ resp.code = "USER_NOT_FOUND" /\ resp.token = NoToken
    /\ (found # {} /\ \A u \in found : u.password # hash(resp.req.creds.password)) =>
         resp.status = 401 /\ resp.code = "INVALID_PASSWORD" /\ resp.token = NoToken

\* both failures have been seen: a wrong password for a registered address
C10_Witness ==
  /\ resp.req.op = "login"
  /\ resp.status = 401
  /\ UsersWithEmail(users, NormalizedEmail(resp.req.creds.email)) # {}
  /\ resp.req.creds.email = EmailAUpper

\* C11: the token of a successful register or login carries the id of the
\* user object returned with it, that user is the one stored under the
\* address of the request, and the Access Guard resolves the token to that id
C11_TokenResolvesToUser ==
  (resp.req.op \in {"register", "login"} /\ resp.status \in {200, 201}) =>
    /\ resp.token \in issued
    /\ resp.token.sub = resp.user.id
    /\ auth(resp.token) = resp.user.id
    /\ \E u \in users :
         /\ u.id = resp.user.id
         /\ u.email = NormalizedEmail(resp.req.creds.email)
         /\ u.password = hash(resp.req.creds.password)
    /\ \A u \in users :
         u.email # NormalizedEmail(resp.req.creds.email) => u.id # resp.token.sub

\* a second user has logged in while another user exists
C11_Witness ==
  /\ resp.req.op = "login"
  /\ resp.status = 200
  /\ resp.user.id = 2
  /\ Cardinality(users) = 2

\* C12: a login under any spelling of a registered address with the password
\* given at registration succeeds and returns the id register returned; with
\* any other password it fails and returns no token
C12_RegisterLoginRoundTrip ==
  (resp.req.op = "login") =>
    \A r \in RegOkFor(NormalizedEmail(resp.req.creds.email)) :
      IF resp.req.creds.password = r.password
      THEN resp.status = 200 /\ resp.user.id = r.id /\ resp.token.sub = r.id
      ELSE resp.status >= 400 /\ resp.token = NoToken /\ resp.user = NoUser

\* a login under the upper-case spelling of a registered address succeeded
C12_Witness ==
  /\ resp.req.op = "login"
  /\ resp.status = 200
  /\ resp.req.creds.email = EmailAUpper
  /\ \E r \in regOk : r.email = EmailA /\ r.id = resp.user.id

\* C13: a token is issued with the expiry now + lifetime; a protected
\* request under an issued token is accepted while the clock is before the
\* token's expiry and answered 401 from the expiry on; the clock never goes
\* back, so a token once expired stays rejected
C13_ExpiryBoundary ==
  [][/\ now' >= now
     /\ (resp' # resp /\ resp'.token # NoToken) =>
          resp'.token.exp = now + JwtExpire
     /\ (resp' # resp /\ resp'.req.op \in {"me", "logout"}
           /\ resp'.req.hdr \in issued) =>
          IF now < resp'.req.hdr.exp
          THEN resp'.status = 200 /\ resp'.caller = resp'.req.hdr.sub
          ELSE resp'.status = 401 /\ resp'.caller = 0]_vars

\* a request under an issued token was answered 401 at the very tick of the
\* token's expiry
C13_Witness ==
  /\ resp.req.op = "me"
  /\ resp.req.hdr \in issued
  /\ resp.status = 401
  /\ now = resp.req.hdr.exp

\* C14: a successful logout, and a successful login that issues a newer
\* token, leave every token issued before and not yet expired accepted by
\* the Access Guard
C14_NoRevocation ==
  [][(resp' # resp /\ resp'.status = 200
        /\ resp'.req.op \in {"logout", "login"}) =>
       \A t \in issued : now' < t.exp => auth(t)' = t.sub]_vars

\* a logout under an older token succeeded after the same user had logged
\* in again, and the Access Guard still accepts the older token
C14_Witness ==
  /\ resp.req.op = "logout"
  /\ resp.status = 200
  /\ \E t \in issued : t.sub = resp.caller /\ t.exp > resp.req.hdr.exp
  /\ auth(resp.req.hdr) = resp.caller

\* the checks POST /register makes itself before it looks the address up
RouteChecksPass(creds) ==
  /\ creds.name # Str0
  /\ creds.email # Str0
  /\ creds.password # Str0
  /\ Len(creds.password) >= MinPasswordLen

\* C15: a register request that passes the route's own checks and names an
\* address that belongs to a user is answered UserExists there and then: it
\* never proceeds to the save, no user is created or changed, and no token
\* is issued
C15_ExistingEmailRejected ==
  [][/\ \A r \in Regs :
          (reg[r].pc = "idle" /\ reg'[r].pc = "checked") =>
            UsersWithEmail(users, NormalizedEmail(reg'[r].creds.email)) = {}
     /\ (resp' # resp /\ resp'.req.op = "register" /\ reg' = reg
           /\ RouteChecksPass(resp'.req.creds)
           /\ UsersWithEmail(users, NormalizedEmail(resp'.req.creds.email)) # {}) =>
          /\ resp'.status = 400
          /\ resp'.code = "USER_EXISTS"
          /\ resp'.token = NoToken
          /\ users' = users
          /\ issued' = issued]_vars

\* the existence check turned down a register under another spelling of an
\* address in use
C15_Witness ==
  /\ resp.req.op = "register"
  /\ resp.code = "USER_EXISTS"
  /\ resp.success = "absent"
  /\ resp.req.creds.email = EmailAUpper
  /\ \E u \in users : u.email = EmailA

\* a register body that breaks a constraint of the data model
InvalidRegister(creds) ==
  \/ creds.name = Str0
  \/ creds.email = Str0
  \/ creds.password = Str0
  \/ Len(trim(creds.name)) < MinNameLen
  \/ Len(trim(creds.name)) > MaxNameLen
  \/ ~ValidEmail(NormalizedEmail(creds.email))
  \/ Len(creds.password) < MinPasswordLen

ValidationCodes == {"MISSING_FIELDS", "PASSWORD_TOO_SHORT", "VALIDATION_ERROR"}

\* C16: a register request with a missing or invalid field is answered 400
\* with a validation error, creates no user and issues no token
C16_InvalidRegisterIsValidationError ==
  [][(resp' # resp /\ resp'.req.op = "register"
        /\ InvalidRegister(resp'.req.creds)) =>
       /\ resp'.status = 400
       /\ resp'.code \in ValidationCodes
       /\ resp'.token = NoToken
       /\ users' = users
       /\ issued' = issued]_vars

\* C17: no step removes or changes a user; a step that adds one answers a
\* register request; login, GET /me, logout and the task operations,
\* accepted or rejected, leave the users as they are
C17_UsersOnlyCreatedByRegister ==
  [][/\ users \subseteq users'
     /\ users' # users => (resp' # resp /\ resp'.req.op = "register")
     /\ (resp' # resp
           /\ resp'.req.op \in {"login", "me", "logout"} \cup GuardedTaskOps) =>
          users' = users]_vars

\* after a logout the users are exactly the two that registered, each with
\* the fields it registered with
C17_Witness ==
  /\ resp.req.op = "logout"
  /\ resp.status = 200
  /\ Cardinality(users) = 2
  /\ Cardinality(regOk) = 2
  /\ \A r \in regOk :
       \E u \in users :
         u.id = r.id /\ u.email = r.email /\ u.password = hash(r.password)

\* the fields of a user object in a response body
UserFields == {"id", "name", "email"}

C19_TitleValidated ==
  [][/\ \A id \in DOMAIN tasks' :
          /\ tasks'[id].title = trim(tasks'[id].title)
          /\ Len(tasks'[id].title) \in 1..MaxTitleLen
     /\ (resp' # resp /\ resp'.caller # 0 /\ resp'.req.op = "create"
           /\ resp'.req.body.title.t = "undef") =>
          resp'.status = 400 /\ tasks' = tasks /\ nextTaskId' = nextTaskId
     /\ (resp' # resp /\ resp'.caller # 0
           /\ resp'.req.op \in {"create", "update"}
           /\ resp'.req.body.title.t = "str") =>
          LET t == trim(resp'.req.body.title.s) IN
          IF Len(t) = 0 \/ Len(t) > MaxTitleLen
          THEN resp'.status = 400 /\ tasks' = tasks /\ nextTaskId' = nextTaskId
          ELSE /\ resp'.req.op = "create" =>
                    /\ resp'.status = 201
                    /\ tasks'[nextTaskId].title = t
                    /\ resp'.tasks[1].title = t
               /\ (resp'.req.op = "update" /\ resp'.status = 200) =>
                    /\ tasks'[resp'.req.id].title = t
                    /\ resp'.tasks[1].title = t]_vars

\* an update with a title padded with spaces succeeded and the task holds
\* the trimmed title
C19_Witness ==
  /\ resp.req.op = "update"
  /\ resp.status = 200
  /\ resp.req.body.title = JStr(TitleMilk)
  /\ tasks[resp.req.id].title = <<"m">>

\* the tasks a listing as caller under the filter of query is to return
OwnedMatching(caller, query) ==
  {id \in DOMAIN tasks :
     /\ tasks[id].user = caller
     /\ query.completed = StrTrue => tasks[id].completed
     /\ query.completed = StrFalse => ~tasks[id].completed}

\* C20: a listing as user U reports as total the number of tasks of U that
\* match the completed filter (all of U's when none is given) and, when they
\* fit in the first page, returns exactly those tasks, each once, as stored
\* and with owner U
C20_ListExactlyOwn ==
  (resp.req.op = "list" /\ resp.status = 200) =>
    LET want == OwnedMatching(resp.caller, resp.req.query) IN
    /\ resp.caller # 0
    /\ resp.total = Cardinality(want)
    /\ (resp.req.query.page = 1 /\ Cardinality(want) <= resp.req.query.limit) =>
         /\ Len(resp.tasks) = Cardinality(want)
         /\ {resp.tasks[i].id : i \in 1..Len(resp.tasks)} = want
         /\ \A i \in 1..Len(resp.tasks) :
              /\ resp.tasks[i].user.id = resp.caller
              /\ resp.tasks[i].title = tasks[resp.tasks[i].id].title
              /\ resp.tasks[i].completed = tasks[resp.tasks[i].id].completed

\* Ann listed her completed tasks and got one of the two tasks she owns
C20_Witness ==
  /\ resp.req.op = "list"
  /\ resp.caller = Ann.id
  /\ resp.req.query.completed = StrTrue
  /\ Len(resp.tasks) = 1
  /\ \E id \in DOMAIN tasks : tasks[id].user = Ann.id /\ ~tasks[id].completed

\* C21: a create answered 201 has put the task in the store, not completed
\* and owned by the caller; a stored task stays as it is until an update or
\* delete of it by its owner succeeds; a delete answered 200 has removed the
\* task and no id is ever used again; and an unfiltered listing that fits in
\* the first page shows the caller every task of theirs in the store, as
\* stored, and no other
C21_ReadYourWrites ==
  [][/\ (resp' # resp /\ resp'.req.op = "create" /\ resp'.status = 201) =>
          /\ nextTaskId \in DOMAIN tasks'
          /\ tasks'[nextTaskId].completed = FALSE
          /\ tasks'[nextTaskId].user = resp'.caller
     /\ \A id \in DOMAIN tasks :
          (id \notin DOMAIN tasks' \/ tasks'[id] # tasks[id]) =>
            /\ resp' # resp
            /\ resp'.status = 200
            /\ resp'.req.op \in {"update", "delete"}
            /\ resp'.req.id = id
            /\ resp'.caller = tasks[id].user
     /\ (resp' # resp /\ resp'.req.op = "delete" /\ resp'.status = 200) =>
          resp'.req.id \notin DOMAIN tasks'
     /\ \A id \in DOMAIN tasks' \ DOMAIN tasks :
          id = nextTaskId /\ nextTaskId' = id + 1
     /\ nextTaskId' >= nextTaskId
     /\ (resp' # resp /\ resp'.req.op = "list" /\ resp'.status = 200
           /\ resp'.req.query.completed = Str0 /\ resp'.req.query.page = 1
           /\ resp'.total <= resp'.req.query.limit) =>
          /\ {resp'.tasks[i].id : i \in 1..Len(resp'.tasks)}
               = {id \in DOMAIN tasks' : tasks'[id].user = resp'.caller}
          /\ \A i \in 1..Len(resp'.tasks) :
               resp'.tasks[i].completed = tasks'[resp'.tasks[i].id].completed]_vars

\* Ann created two tasks, deleted one, and her listing shows the other alone
C21_Witness ==
  /\ resp.req.op = "list"
  /\ resp.caller = Ann.id
  /\ resp.req.query.completed = Str0
  /\ nextTaskId = 3
  /\ Cardinality(DOMAIN tasks) = 1
  /\ Len(resp.tasks) = 1
  /\ resp.tasks[1].id \in DOMAIN tasks

\* C24: an update by the owner whose patch carries completed stores a
\* boolean exactly as given, and answers a value that is not a boolean with
\* a validation error, the task unchanged
C24_CompletedValidated ==
  [][(resp' # resp /\ resp'.req.op = "update" /\ resp'.caller # 0
        /\ resp'.req.id \in DOMAIN tasks
        /\ tasks[resp'.req.id].user = resp'.caller
        /\ ValidPatch(resp'.req.body)
        /\ resp'.req.body.completed.t # "undef") =>
       IF resp'.req.body.completed.t = "bool"
       THEN /\ resp'.status = 200
            /\ tasks'[resp'.req.id].completed = resp'.req.body.completed.b
       ELSE resp'.status = 400 /\ tasks' = tasks]_vars

\* C25: every request a handler has dealt with has been answered with a
\* status
C25_EveryRequestAnswered ==
  resp.req.op # "none" => resp.status # 0 /\ resp.code # "NO_RESPONSE"

\* ------------------------------------------------- the client's AuthProvider
\* how a request of the client can end: answered 2xx, answered 401, answered
\* 4xx otherwise, or failed in transit
Transient == {"timeout", "network", "5xx"}
CheckOutcomes == {"ok", "unauthorized"} \cup Transient
CallOutcomes == {"ok", "rejected"} \cup Transient
FetchOutcomes == {"ok", "unauthorized", "timeout"}

isAuthenticated(a) == a.token # 0 /\ a.user # 0

\* AppContent: the spinner while loading, then TodoApp or AuthWrapper
Screen(a) ==
  IF a.loading THEN "loading"
  ELSE IF isAuthenticated(a) THEN "todo" ELSE "auth"

\* the commit after AuthProvider's state changed: TodoApp mounts with an
\* empty list, stays, or unmounts and abandons its requests
Rendered(a, t) ==
  IF a.mounted /\ Screen(a) = "todo"
  THEN IF t.mounted THEN t ELSE [t EXCEPT !.mounted = TRUE, !.tasks = << >>]
  ELSE [t EXCEPT !.mounted = FALSE, !.tasks = << >>,
                 !.fetches = {[f EXCEPT !.live = FALSE] : f \in t.fetches}]

\* the effect on [token]: the old timer is cleared, a new one set, and
\* checkAuth either sends GET /me or finds no token and ends at once
checkAuthEffect(a) ==
  IF a.token # 0
  THEN [a EXCEPT !.checks = @ \cup {a.token}, !.timer = a.token]
  ELSE [a EXCEPT !.loading = FALSE, !.timer = 0]

\* checkAuth's catch leaving the token alone
checkAuthSettle_keepToken(a, tok, outcome) ==
  [a EXCEPT !.user = IF outcome = "ok" THEN tok ELSE 0,
            !.loading = FALSE,
            !.timer = IF a.timer = tok THEN 0 ELSE a.timer,
            !.checks = @ \ {tok},
            !.last = [ev |-> "check", outcome |-> outcome]]

\* GET /me of the check for tok settles: setUser, or the catch for any error
\* at all; then setLoading(false) and the check's own timer is cleared
checkAuthSettle(a, tok, outcome) ==
  LET b == [a EXCEPT !.checks = @ \ {tok},
                     !.timer = IF a.timer = tok THEN 0 ELSE a.timer,
                     !.loading = FALSE,
                     !.last = [ev |-> "check", outcome |-> outcome]]
      c == [b EXCEPT !.stored = 0, !.token = 0, !.user = 0]
  IN IF outcome = "ok" THEN [b EXCEPT !.user = tok]
     ELSE IF a.token # 0 THEN checkAuthEffect(c) ELSE c

\* login and register without the finally
callSettle_noFinally(a, call, outcome) ==
  LET b == [a EXCEPT !.calls = @ \ {call},
                     !.last = [ev |-> call.op, outcome |-> outcome]]
      c == [b EXCEPT !.stored = call.as, !.token = call.as, !.user = call.as,
                     !.loading = FALSE]
  IN IF outcome # "ok" THEN b
     ELSE IF a.token # call.as THEN checkAuthEffect(c) ELSE c

\* POST /login or /register settles: on success the token is stored and
\* token and user are set; finally setLoading(false)
callSettle(a, call, outcome) ==
  LET b == [a EXCEPT !.calls = @ \ {call},
                     !.loading = FALSE,
                     !.last = [ev |-> call.op, outcome |-> outcome]]
      c == [b EXCEPT !.stored = call.as, !.token = call.as, !.user = call.as]
  IN IF outcome # "ok" THEN b
     ELSE IF a.token # call.as THEN checkAuthEffect(c) ELSE c

\* logout clearing the session only when the server answered
logoutSettle_onSuccess(a, call, outcome) ==
  LET b == [a EXCEPT !.calls = @ \ {call},
                     !.last = [ev |-> "logout", outcome |-> outcome]]
      c == [b EXCEPT !.stored = 0, !.token = 0, !.user = 0]
  IN IF outcome # "ok" THEN b
     ELSE IF a.token # 0 THEN checkAuthEffect(c) ELSE c

\* POST /logout settles: whatever came of it, finally the token is removed
\* and token and user are set to null
logoutSettle(a, call, outcome) ==
  LET b == [a EXCEPT !.calls = @ \ {call},
                     !.last = [ev |-> "logout", outcome |-> outcome]]
      c == [b EXCEPT !.stored = 0, !.token = 0, !.user = 0]
  IN IF a.token # 0 THEN checkAuthEffect(c) ELSE c

\* the server and the task widgets stay as they are
ClientFrame ==
  UNCHANGED <<users, tasks, nextTaskId, taskCreator, now, jwtSecret, issued,
              reg, regOk, resp, conc, taskUi>>

\* the page loads: token from localStorage, user null, loading true, and the
\* effects of the first commit
Mount ==
  /\ ~authP.mounted
  /\ authP' = checkAuthEffect([authP EXCEPT !.mounted = TRUE,
                                            !.token = authP.stored])
  /\ todoApp' = Rendered(authP', todoApp)
  /\ ClientFrame

CheckSettle(tok, outcome) ==
  /\ tok \in authP.checks
  /\ authP' = checkAuthSettle(authP, tok, outcome)
  /\ todoApp' = Rendered(authP', todoApp)
  /\ ClientFrame

\* the 10-second timer of the latest effect
TimerFires ==
  /\ authP.timer # 0
  /\ authP' = [authP EXCEPT !.loading = FALSE, !.timer = 0,
                            !.last = [ev |-> "timer", outcome |-> "none"]]
  /\ todoApp' = Rendered(authP', todoApp)
  /\ ClientFrame

\* the user submits the login or register form of AuthWrapper
CallStart(op, u) ==
  /\ authP.mounted
  /\ Screen(authP) = "auth"
  /\ authP' = [authP EXCEPT !.loading = TRUE,
                            !.calls = @ \cup {[op |-> op, as |-> u]},
                            !.last = [ev |-> "submit", outcome |-> "none"]]
  /\ todoApp' = Rendered(authP', todoApp)
  /\ ClientFrame

CallSettle(call, outcome) ==
  /\ call \in authP.calls
  /\ call.op \in {"login", "register"}
  /\ authP' = callSettle(authP, call, outcome)
  /\ todoApp' = Rendered(authP', todoApp)
  /\ ClientFrame

\* the user confirms Logout in the Navigation of TodoApp
LogoutStart ==
  /\ authP.mounted
  /\ Screen(authP) = "todo"
  /\ authP' = [authP EXCEPT !.calls = @ \cup {[op |-> "logout", as |-> 0]},
                            !.last = [ev |-> "click", outcome |-> "none"]]
  /\ todoApp' = Rendered(authP', todoApp)
  /\ ClientFrame

LogoutSettle(outcome) ==
  LET call == [op |-> "logout", as |-> 0] IN
  /\ call \in authP.calls
  /\ authP' = logoutSettle(authP, call, outcome)
  /\ todoApp' = Rendered(authP', todoApp)
  /\ ClientFrame

\* ----------------------------------------------------- the client's TodoApp
\* what GET /tasks answers to the token of user u
tasksOf(u) ==
  LET found == {id \in DOMAIN tasks : listFilter(id, u, NoQuery)}
      page == Page(SortedDesc(found), DefaultLimit, 0)
  IN [i \in 1..Len(page) |-> TaskView(page[i])]

TodoFrame ==
  UNCHANGED <<users, tasks, nextTaskId, taskCreator, now, jwtSecret, issued,
              reg, regOk, resp, conc, authP, taskUi>>

\* fetchTasks: the request interceptor answers from sessionStorage while the
\* entry under '/tasks_undefined' has not expired, else the request is sent
FetchTasks ==
  /\ todoApp.mounted
  /\ IF todoApp.cache.has /\ todoApp.cache.fresh
     THEN todoApp' = [todoApp EXCEPT !.tasks = todoApp.cache.data]
     ELSE todoApp' = [todoApp EXCEPT
                        !.cache = NoCache,
                        !.fetches = @ \cup {[tok |-> authP.token, live |-> TRUE]}]
  /\ TodoFrame

\* GET /tasks settles: the response interceptor stores every answer in
\* sessionStorage; the TodoApp that asked, if still mounted, shows it
FetchSettle(f, outcome) ==
  LET data == tasksOf(f.tok)
      t == [todoApp EXCEPT !.fetches = @ \ {f}]
  IN
  /\ f \in todoApp.fetches
  /\ todoApp' =
       CASE outcome = "ok" ->
              [t EXCEPT !.cache = [has |-> TRUE, fresh |-> TRUE, data |-> data],
                        !.tasks = IF f.live THEN data ELSE @]
         [] outcome = "unauthorized" ->
              [t EXCEPT !.tasks = IF f.live THEN << >> ELSE @]
         [] OTHER -> t
  /\ TodoFrame

\* five minutes pass since the entry was stored
CacheExpire ==
  /\ todoApp.cache.has
  /\ todoApp.cache.fresh
  /\ todoApp' = [todoApp EXCEPT !.cache.fresh = FALSE]
  /\ TodoFrame

\* the browser holds no token or one from an earlier visit; Ann and Bob are
\* registered and each has created one task
InitClient ==
  /\ users = {Ann, Bob}
  /\ issued = {[sub |-> Ann.id, exp |-> JwtExpire - 1, sig |-> "good"],
               [sub |-> Bob.id, exp |-> JwtExpire, sig |-> "good"]}
  /\ regOk = {[email |-> EmailA, password |-> PwOne, id |-> Ann.id],
              [email |-> EmailB, password |-> PwOne, id |-> Bob.id]}
  /\ jwtSecret = TRUE
  /\ tasks = (1 :> [title |-> trim(TitleMilk), completed |-> FALSE,
                    user |-> Ann.id])
             @@ (2 :> [title |-> TitleTea, completed |-> FALSE,
                       user |-> Bob.id])
  /\ taskCreator = (1 :> Ann.id) @@ (2 :> Bob.id)
  /\ nextTaskId = 3
  /\ now = 0
  /\ reg = [r \in Regs |-> IdleReg]
  /\ resp = NoResponse
  /\ conc = ConcInit
  /\ authP \in {[AuthProviderInit EXCEPT !.stored = s] : s \in {0} \cup UserIds}
  /\ todoApp = TodoAppInit
  /\ taskUi = TaskUiInit

NextSession ==
  \/ Mount
  \/ \E tok \in UserIds, outcome \in CheckOutcomes : CheckSettle(tok, outcome)
  \/ TimerFires
  \/ \E op \in {"login", "register"}, u \in UserIds : CallStart(op, u)
  \/ \E call \in authP.calls, outcome \in CallOutcomes : CallSettle(call, outcome)
  \/ LogoutStart
  \/ \E outcome \in CallOutcomes : LogoutSettle(outcome)

SpecSession == InitClient /\ [][NextSession]_vars

\* every request settles (axios timeout) and a set timer fires
SessionFairness ==
  /\ WF_vars(\E tok \in UserIds, outcome \in CheckOutcomes :
               CheckSettle(tok, outcome))
  /\ WF_vars(TimerFires)
  /\ WF_vars(\E call \in authP.calls, outcome \in CallOutcomes :
               CallSettle(call, outcome))
  /\ WF_vars(\E outcome \in CallOutcomes : LogoutSettle(outcome))

SpecSessionLive == SpecSession /\ SessionFairness

NextClient ==
  \/ Mount
  \/ \E tok \in UserIds, outcome \in CheckOutcomes : CheckSettle(tok, outcome)
  \/ TimerFires
  \/ \E op \in {"login", "register"}, u \in UserIds : CallStart(op, u)
  \/ \E call \in authP.calls, outcome \in CallOutcomes : CallSettle(call, outcome)
  \/ LogoutStart
  \/ \E outcome \in CallOutcomes : LogoutSettle(outcome)
  \/ FetchTasks
  \/ \E f \in todoApp.fetches, outcome \in FetchOutcomes : FetchSettle(f, outcome)
  \/ CacheExpire

SpecClient == InitClient /\ [][NextClient]_vars

\* ------------------------------------------ the client's TaskForm and TaskList
\* TaskForm.handleSubmit up to its await: nothing for a blank title or while
\* isSubmitting, else isSubmitting is set and POST /tasks is sent
handleSubmit(u) ==
  IF Len(trim(u.title)) = 0 \/ u.isSubmitting
  THEN [u EXCEPT !.ignored = TRUE]
  ELSE [u EXCEPT !.isSubmitting = TRUE, !.adds = @ + 1, !.ignored = FALSE]

\* handleToggleComplete taking every click
handleToggleComplete_noGuard(u, id) ==
  [u EXCEPT !.updatingTasks = @ \cup {id}, !.toggles[id] = @ + 1,
            !.ignored = FALSE]

\* TaskList.handleToggleComplete up to its await
handleToggleComplete(u, id) ==
  IF id \in u.updatingTasks
  THEN [u EXCEPT !.ignored = TRUE]
  ELSE [u EXCEPT !.updatingTasks = @ \cup {id}, !.toggles[id] = @ + 1,
                 !.ignored = FALSE]

\* TaskList.handleDelete up to its await; confirmed is the user's answer to
\* window.confirm
handleDelete(u, id, confirmed) ==
  IF id \in u.deletingTasks \/ ~confirmed
  THEN [u EXCEPT !.ignored = TRUE]
  ELSE [u EXCEPT !.deletingTasks = @ \cup {id}, !.deletes[id] = @ + 1,
                 !.ignored = FALSE]

UiFrame ==
  UNCHANGED <<users, tasks, nextTaskId, taskCreator, now, jwtSecret, issued,
              reg, regOk, resp, conc, authP, todoApp>>

\* onChange of the input, which is disabled while isSubmitting
TypeTitle(t) ==
  /\ ~taskUi.isSubmitting
  /\ taskUi' = [taskUi EXCEPT !.title = t, !.ignored = FALSE]
  /\ UiFrame

\* Enter in the input or a click on Add Task
Submit ==
  /\ taskUi.adds < MaxSame
  /\ taskUi' = handleSubmit(taskUi)
  /\ UiFrame

\* POST /tasks settles: the title is cleared on success; finally
\* setIsSubmitting(false)
AddSettle(outcome) ==
  /\ taskUi.adds > 0
  /\ taskUi' = [taskUi EXCEPT !.adds = @ - 1,
                              !.isSubmitting = FALSE,
                              !.title = IF outcome = "ok" THEN Str0 ELSE @,
                              !.ignored = FALSE]
  /\ UiFrame

\* a click on the checkbox or the Complete/Undo button of a shown task
Toggle(id) ==
  /\ id \in taskUi.shown
  /\ taskUi.toggles[id] < MaxSame
  /\ taskUi' = handleToggleComplete(taskUi, id)
  /\ UiFrame

\* PUT /tasks/:id settles: finally the id leaves updatingTasks
ToggleSettle(id, outcome) ==
  /\ taskUi.toggles[id] > 0
  /\ taskUi' = [taskUi EXCEPT !.toggles[id] = @ - 1,
                              !.updatingTasks = @ \ {id},
                              !.ignored = FALSE]
  /\ UiFrame

\* a click on Delete of a shown task
Delete(id, confirmed) ==
  /\ id \in taskUi.shown
  /\ taskUi.deletes[id] < MaxSame
  /\ taskUi' = handleDelete(taskUi, id, confirmed)
  /\ UiFrame

\* DELETE /tasks/:id settles: on success TodoApp drops the task from the
\* list; finally the id leaves deletingTasks
DeleteSettle(id, outcome) ==
  /\ taskUi.deletes[id] > 0
  /\ taskUi' = [taskUi EXCEPT !.deletes[id] = @ - 1,
                              !.deletingTasks = @ \ {id},
                              !.shown = IF outcome = "ok" THEN @ \ {id} ELSE @,
                              !.ignored = FALSE]
  /\ UiFrame

\* Ann is signed in and TodoApp shows her tasks
InitUi ==
  /\ users = {Ann, Bob}
  /\ issued = {[sub |-> Ann.id, exp |-> JwtExpire - 1, sig |-> "good"],
               [sub |-> Bob.id, exp |-> JwtExpire, sig |-> "good"]}
  /\ regOk = {[email |-> EmailA, password |-> PwOne, id |-> Ann.id],
              [email |-> EmailB, password |-> PwOne, id |-> Bob.id]}
  /\ jwtSecret = TRUE
  /\ tasks = [i \in TaskIds |->
                [title |-> TitleTea, completed |-> FALSE, user |-> Ann.id]]
  /\ taskCreator = [i \in TaskIds |-> Ann.id]
  /\ nextTaskId = MaxTasks + 1
  /\ now = 0
  /\ reg = [r \in Regs |-> IdleReg]
  /\ resp = NoResponse
  /\ conc = ConcInit
  /\ authP = [AuthProviderInit EXCEPT !.mounted = TRUE, !.stored = Ann.id,
                                      !.token = Ann.id, !.user = Ann.id,
                                      !.loading = FALSE]
  /\ todoApp = [TodoAppInit EXCEPT !.mounted = TRUE, !.tasks = tasksOf(Ann.id)]
  /\ taskUi = [TaskUiInit EXCEPT !.mounted = TRUE, !.shown = TaskIds]

NextUi ==
  \/ \E t \in {Str0, TitleBlank, TitleMilk} : TypeTitle(t)
  \/ Submit
  \/ \E outcome \in {"ok", "timeout"} : AddSettle(outcome)
  \/ \E id \in TaskIds : Toggle(id)
  \/ \E id \in TaskIds, outcome \in {"ok", "timeout"} : ToggleSettle(id, outcome)
  \/ \E id \in TaskIds, confirmed \in BOOLEAN : Delete(id, confirmed)
  \/ \E id \in TaskIds, outcome \in {"ok", "timeout"} : DeleteSettle(id, outcome)

SpecUi == InitUi /\ [][NextUi]_vars

\* C26 as stated: once a delete of t has returned success, t is absent, every
\* update or delete of t whose response returns afterwards is NotFound, no
\* step brings t back, and no second delete of t returns success
C26_AsStated ==
  [][/\ \A id \in conc'.deleted : id \notin DOMAIN tasks'
     /\ (DOMAIN tasks' \ DOMAIN tasks) \subseteq {nextTaskId}
     /\ \A s \in Slots :
          (/\ conc.slots[s] # NoResponse
           /\ conc'.slots[s] = NoResponse
           /\ conc.slots[s].req.op \in {"update", "delete"}
           /\ conc.slots[s].req.id \in conc.deleted)
          => conc.slots[s].status = 404]_vars

\* a request of a signed-in user is handled in this step
Handled(op) == resp = NoResponse /\ resp' # NoResponse /\ resp'.req.op = op

\* C26, amended: once a delete of t has returned success, t is absent, every
\* update or delete of t whose store operation runs afterwards is NotFound and
\* changes nothing, no step brings t back, a delete of an existing own task
\* succeeds and removes it, and no second delete of t returns success
C26_AtomicUpdateDelete ==
  [][/\ \A id \in conc'.deleted : id \notin DOMAIN tasks'
     /\ (DOMAIN tasks' \ DOMAIN tasks) \subseteq {nextTaskId}
     /\ (/\ Handled("update") \/ Handled("delete")
         /\ resp'.req.id \in conc.deleted)
        => resp'.status = 404 /\ tasks' = tasks
     /\ Handled("delete") =>
          (resp'.status = 200) = findOneFilter(resp'.req.id, resp'.caller)
     /\ (Handled("delete") /\ resp'.status = 200)
        => resp'.req.id \notin DOMAIN tasks'
     /\ \A s \in Slots :
          (/\ conc.slots[s] # NoResponse
           /\ conc'.slots[s] = NoResponse
           /\ conc.slots[s].req.op = "delete"
           /\ conc.slots[s].status = 200)
          => conc.slots[s].req.id \notin conc.deleted]_vars

\* a delete of t is answered NotFound after another delete of t returned
\* success, while an update of t that ran before them still holds its success
C26_Witness ==
  /\ resp.req.op = "delete"
  /\ resp.status = 404
  /\ resp.req.id \in conc.deleted
  /\ \E s \in Slots : /\ conc.slots[s].req.op = "update"
                      /\ conc.slots[s].status = 200
                      /\ conc.slots[s].req.id = resp.req.id

\* the user a shown task may belong to: the one the token stands for, who is
\* also the one shown as signed in unless a late check answered for another
SignedIn == {authP.token, authP.user}

\* C22: the task list TodoApp shows holds only tasks of the signed-in user
C22_OwnTasksShown ==
  todoApp.mounted =>
    \A i \in 1..Len(todoApp.tasks) : todoApp.tasks[i].user.id \in SignedIn

\* C23: right after GET /me was answered 401, localStorage holds no token,
\* token and user are null, isAuthenticated() is false and AppContent shows
\* AuthWrapper, not TodoApp
C23_AutoLogout ==
  authP.last = [ev |-> "check", outcome |-> "unauthorized"] =>
    /\ authP.stored = 0
    /\ authP.token = 0
    /\ authP.user = 0
    /\ ~isAuthenticated(authP)
    /\ Screen(authP) = "auth"
    /\ ~todoApp.mounted

\* the check of a token from an earlier visit was just answered 401
C23_Witness ==
  /\ authP.mounted
  /\ authP.last = [ev |-> "check", outcome |-> "unauthorized"]
  /\ authP.calls = {}

\* C27: right after logout() completed, whatever the outcome of POST /logout,
\* localStorage holds no token, token and user are null and
\* isAuthenticated() is false
C27_LogoutDiscards ==
  authP.last.ev = "logout" =>
    /\ authP.last.outcome \in CallOutcomes
    /\ authP.stored = 0
    /\ authP.token = 0
    /\ authP.user = 0
    /\ ~isAuthenticated(authP)

\* logout() just completed although POST /logout timed out
C27_Witness == authP.last = [ev |-> "logout", outcome |-> "timeout"]

\* C28: the stored token is removed only by a logout or by a check the
\* server answered 401
C28_TokenDiscardedOnlyIfInvalid ==
  [][(authP.stored # 0 /\ authP'.stored = 0)
       => \/ authP'.last.ev = "logout"
          \/ authP'.last = [ev |-> "check", outcome |-> "unauthorized"]]_vars

\* C29: whenever the mounted AuthProvider is loading, loading becomes false
\* later; it is false right after the auth check settled, the timer fired, or
\* a login or register call returned with any outcome
C29_LoadingEnds ==
  /\ (authP.mounted /\ authP.loading) ~> ~authP.loading
  /\ [](authP.last.ev \in {"check", "timer", "login", "register"}
          => ~authP.loading)

\* a login that timed out has returned and loading is false again
C29_Witness ==
  /\ authP.last = [ev |-> "login", outcome |-> "timeout"]
  /\ ~authP.loading

\* C30: at most one add is in flight, and for every task at most one toggle
\* and at most one delete; a submit made while an add is in flight, and a
\* toggle or delete of a task made while the same action on it is in flight,
\* sends nothing
C30_OneRequestPerAction ==
  /\ taskUi.adds <= 1
  /\ taskUi.isSubmitting = (taskUi.adds = 1)
  /\ \A id \in TaskIds :
       /\ taskUi.toggles[id] <= 1
       /\ taskUi.deletes[id] <= 1
       /\ (id \in taskUi.updatingTasks) = (taskUi.toggles[id] = 1)
       /\ (id \in taskUi.deletingTasks) = (taskUi.deletes[id] = 1)

\* an event was just ignored while an add, a toggle and a delete are in flight
C30_Witness ==
  /\ taskUi.ignored
  /\ taskUi.adds = 1
  /\ Len(trim(taskUi.title)) > 0
  /\ \E id \in TaskIds : taskUi.toggles[id] = 1 /\ taskUi.deletes[id] = 1

====
